---- MODULE Spec2Model ----
(***************************************************************************)
(* Visual Product Matcher: the similarity scorer, the embedding cache, the *)
(* image analyzer's parsing/fallback chain, the search orchestrator        *)
(* (src/app.py) and the catalog validator (src/validate_products.py).      *)
(*                                                                         *)
(* A Python str is a sequence of one-character strings; the characters     *)
(* newline, tab, backquote and double quote are written "NL", "TAB", "BQ"  *)
(* and "DQ".  A float score is an exact fraction <<n, d>> with d > 0.      *)
(***************************************************************************)
EXTENDS Integers, Sequences, FiniteSets, TLC

VARIABLES
    PRODUCTS,                   \* the catalog loaded from products.json
    GEMINI_ENABLED,             \* bool(GEMINI_API_KEY)
    product_embeddings_cache,   \* product id -> embedding
    lastRequest,                    \* the last request handled (with its environment's outcomes)
    lastResponse,                   \* the response to it
    lastAnalysis,                   \* what analyze_image returned for it
    lastCalls,                      \* what its get_product_embedding calls returned, in order
    validated,                  \* validate_products' verdict on products.json
    workers,                    \* concurrent request handlers: position and locals
    returned,                   \* what each concurrent get_product_embedding call returned
    simA, simB, simResult       \* calculate_similarity: arguments and return value

simVars == <<simA, simB, simResult>>
appVars == <<PRODUCTS, GEMINI_ENABLED, product_embeddings_cache, lastRequest, lastResponse,
             lastAnalysis, lastCalls, validated>>
concVars == <<workers, returned>>
vars == <<PRODUCTS, GEMINI_ENABLED, product_embeddings_cache, lastRequest, lastResponse,
          lastAnalysis, lastCalls, validated, workers, returned, simA, simB, simResult>>

None == [t |-> "None"]

(***************************************************************************)
(* Bounds of the model.                                                    *)
(***************************************************************************)
MaxLen == 2         \* scorer inputs: every string over SimAlphabet up to this length
MaxDirect == 2      \* direct get_product_embedding calls: on the first MaxDirect products
NumWorkers == 2     \* concurrent request handlers
ValExtra == 1       \* validator inputs: catalogs of up to MIN_PRODUCTS + ValExtra products

(***************************************************************************)
(* Python str operations.                                                  *)
(***************************************************************************)
Whitespace == {" ", "TAB", "NL"}

Upper == <<"A","B","C","D","E","F","G","H","I","J","K","L","M",
           "N","O","P","Q","R","S","T","U","V","W","X","Y","Z">>
Lower == <<"a","b","c","d","e","f","g","h","i","j","k","l","m",
           "n","o","p","q","r","s","t","u","v","w","x","y","z">>

UpperToLower == [c \in {Upper[i] : i \in 1..26} |-> Lower[CHOOSE i \in 1..26 : Upper[i] = c]]

\* str.lower() on one character
LowerChar(c) == IF c \in DOMAIN UpperToLower THEN UpperToLower[c] ELSE c

\* the sequence f as an explicit tuple (the same value; its elements are
\* computed once instead of at every use)
Tuple(f) == SubSeq(f, 1, Len(f))

\* str.lower()
lower(s) == Tuple([i \in 1..Len(s) |-> LowerChar(s[i])])

\* the elements of a finite set of integers, ascending
Ascending(S) ==
    Tuple([k \in 1..Cardinality(S) |->
            CHOOSE x \in S : Cardinality({y \in S : y < x}) = k - 1])

\* str.split(): the whitespace-separated words, in order
split(s) ==
    LET n == Len(s)
        starts == {i \in 1..n : s[i] \notin Whitespace /\ (i = 1 \/ s[i - 1] \in Whitespace)}
        EndOf(i) == CHOOSE j \in i..n :
                        /\ \A k \in i..j : s[k] \notin Whitespace
                        /\ (j = n \/ s[j + 1] \in Whitespace)
        order == Ascending(starts)
    IN  Tuple([k \in 1..Len(order) |-> SubSeq(s, order[k], EndOf(order[k]))])

\* set(list)
ToSet(q) == {q[i] : i \in 1..Len(q)}

\* Python's `k in s` on strings
Contains(s, k) ==
    \/ k = <<>>
    \/ \E i \in 0..(Len(s) - Len(k)) : s[i + 1] = k[1] /\ SubSeq(s, i + 1, i + Len(k)) = k

(***************************************************************************)
(* Exact fractions standing for the float scores.                          *)
(***************************************************************************)
Rat(n, d) == <<n, d>>
RatEq(p, q) == p[1] * q[2] = q[1] * p[2]
RatLe(p, q) == p[1] * q[2] <= q[1] * p[2]
RatOne == Rat(1, 1)
RatZero == Rat(0, 1)

(***************************************************************************)
(* calculate_similarity                                                    *)
(***************************************************************************)
category_keywords == {
    <<"p", "h", "o", "n", "e">>, <<"l", "a", "p", "t", "o", "p">>, <<"c", "a", "m", "e", "r", "a">>, <<"s", "h", "o", "e", "s">>, <<"w", "a", "t", "c", "h">>, <<"h", "e", "a", "d", "p", "h", "o", "n", "e", "s">>,
    <<"t", "a", "b", "l", "e", "t">>, <<"m", "o", "n", "i", "t", "o", "r">>, <<"k", "e", "y", "b", "o", "a", "r", "d">>, <<"m", "o", "u", "s", "e">>, <<"s", "p", "e", "a", "k", "e", "r">>, <<"j", "a", "c", "k", "e", "t">>,
    <<"j", "e", "a", "n", "s">>, <<"s", "u", "n", "g", "l", "a", "s", "s", "e", "s">>, <<"c", "h", "a", "i", "r">>, <<"d", "e", "s", "k">>, <<"b", "o", "t", "t", "l", "e">>, <<"v", "a", "c", "u", "u", "m">>,
    <<"s", "m", "a", "r", "t", "p", "h", "o", "n", "e">>, <<"c", "o", "m", "p", "u", "t", "e", "r">>, <<"f", "o", "o", "t", "w", "e", "a", "r">>, <<"c", "l", "o", "t", "h", "i", "n", "g">>, <<"f", "u", "r", "n", "i", "t", "u", "r", "e">>,
    <<"e", "l", "e", "c", "t", "r", "o", "n", "i", "c", "s">>, <<"a", "c", "c", "e", "s", "s", "o", "r", "y">>, <<"h", "o", "m", "e">>, <<"d", "e", "v", "i", "c", "e">> }

CategoryMatchTokens(embedding1, embedding2) ==
    LET words1 == ToSet(split(lower(embedding1)))
        words2 == ToSet(split(lower(embedding2)))
    IN  \E keyword \in category_keywords : keyword \in words1 /\ keyword \in words2

\* any(keyword in embedding1.lower() and keyword in embedding2.lower() ...)
CategoryMatch(embedding1, embedding2) ==
    LET lower1 == lower(embedding1)
        lower2 == lower(embedding2)
    IN  \E keyword \in category_keywords :
            Contains(lower1, keyword) /\ Contains(lower2, keyword)

\* similarity = base_similarity * 1.3 if category_match else base_similarity
Boost(base, category_match) ==
    IF category_match THEN Rat(base[1] * 13, base[2] * 10) ELSE base

ClampMissing(similarity) == similarity

\* min(similarity, 1.0)
Clamp(similarity) == IF RatLe(similarity, RatOne) THEN similarity ELSE RatOne

JaccardOverSum(words1, words2) ==
    Rat(Cardinality(words1 \cap words2), Cardinality(words1) + Cardinality(words2))

\* base_similarity = len(intersection) / len(union), for a non-empty union
Jaccard(words1, words2) ==
    LET intersection == words1 \cap words2
        union == words1 \cup words2
    IN  Rat(Cardinality(intersection), Cardinality(union))

calculate_similarity(embedding1, embedding2) ==
    LET words1 == ToSet(split(lower(embedding1)))
        words2 == ToSet(split(lower(embedding2)))
        union == words1 \cup words2
    IN  IF Cardinality(union) = 0
        THEN RatZero
        ELSE LET base_similarity == Jaccard(words1, words2)
                 category_match == CategoryMatch(embedding1, embedding2)
             IN  Clamp(Boost(base_similarity, category_match))

(***************************************************************************)
(* Python values: what json.loads returns and what the handlers pass on.   *)
(* A dict is a function from keys (strings) to values.                     *)
(***************************************************************************)
PyStr(chars) == [t |-> "str", v |-> chars]
PyInt(n) == [t |-> "int", v |-> n]
PyBool(b) == [t |-> "bool", v |-> b]
PyList(q) == [t |-> "list", v |-> q]
PyDict(f) == [t |-> "dict", v |-> f]
PyNone == [t |-> "None", v |-> 0]

EmptyDict == PyDict(<<>>)

\* d[k] = x
DictSet(d, k, x) ==
    PyDict([key \in DOMAIN d.v \cup {k} |-> IF key = k THEN x ELSE d.v[key]])

\* d.get(k, default)
DictGet(d, k, default) == IF k \in DOMAIN d.v THEN d.v[k] ELSE default

\* d.setdefault(k, default)
DictSetDefault(d, k, default) == IF k \in DOMAIN d.v THEN d ELSE DictSet(d, k, default)

\* bool(x)
Truthy(x) ==
    CASE x.t = "str" -> x.v # <<>>
      [] x.t = "int" -> x.v # 0
      [] x.t = "bool" -> x.v
      [] x.t = "list" -> x.v # <<>>
      [] x.t = "dict" -> DOMAIN x.v # {}
      [] x.t = "None" -> FALSE

Digits == <<"0", "1", "2", "3", "4", "5", "6", "7", "8", "9">>

RECURSIVE IntToStr(_)
IntToStr(n) ==
    IF n < 10 THEN <<Digits[n + 1]>> ELSE Append(IntToStr(n \div 10), Digits[(n % 10) + 1])

\* str(x) of a scalar (the list elements of the modelled provider answers are scalars)
str(x) ==
    CASE x.t = "str" -> x.v
      [] x.t = "int" -> IntToStr(x.v)
      [] x.t = "bool" -> IF x.v THEN <<"T", "r", "u", "e">> ELSE <<"F", "a", "l", "s", "e">>
      [] x.t = "None" -> <<"N", "o", "n", "e">>

\* str.strip()
strip(s) ==
    LET solid == {i \in 1..Len(s) : s[i] \notin Whitespace}
    IN  IF solid = {} THEN <<>>
        ELSE SubSeq(s, CHOOSE i \in solid : \A k \in solid : i <= k,
                       CHOOSE j \in solid : \A k \in solid : k <= j)

\* str.startswith(prefix)
startswith(s, prefix) == Len(s) >= Len(prefix) /\ SubSeq(s, 1, Len(prefix)) = prefix

\* str.find(c) for a single character: 1-based index, 0 when absent
find(s, c) ==
    IF \E i \in 1..Len(s) : s[i] = c
    THEN CHOOSE i \in 1..Len(s) : s[i] = c /\ \A j \in 1..(i - 1) : s[j] # c
    ELSE 0

\* str.rfind(c) for a single character: 1-based index, 0 when absent
rfind(s, c) ==
    IF \E i \in 1..Len(s) : s[i] = c
    THEN CHOOSE i \in 1..Len(s) : s[i] = c /\ \A j \in (i + 1)..Len(s) : s[j] # c
    ELSE 0

\* str.split(sep) for a single-character separator
splitOn(s, sep) ==
    LET cuts == Ascending({i \in 1..Len(s) : s[i] = sep})
        From(k) == IF k = 1 THEN 1 ELSE cuts[k - 1] + 1
        To(k) == IF k = Len(cuts) + 1 THEN Len(s) ELSE cuts[k] - 1
    IN  Tuple([k \in 1..(Len(cuts) + 1) |-> SubSeq(s, From(k), To(k))])

RECURSIVE join(_, _)
\* sep.join(parts)
join(sep, parts) ==
    IF parts = <<>> THEN <<>>
    ELSE IF Len(parts) = 1 THEN parts[1]
         ELSE parts[1] \o sep \o join(sep, Tail(parts))

(***************************************************************************)
(* json.loads on the JSON subset the modelled provider answers use:        *)
(* objects, arrays, strings without escapes, non-negative integers, true,  *)
(* false, null.  Anything else raises.                                     *)
(***************************************************************************)
JsonWs == {" ", "TAB", "NL"}
JsonFail == [ok |-> FALSE, val |-> PyNone, pos |-> 0]
JsonOk(val, pos) == [ok |-> TRUE, val |-> val, pos |-> pos]

\* the first position from i on that holds no JSON whitespace (Len(s) + 1 at the end)
SkipWs(s, i) ==
    CHOOSE j \in i..(Len(s) + 1) :
        /\ \A k \in i..(j - 1) : s[k] \in JsonWs
        /\ (j = Len(s) + 1 \/ s[j] \notin JsonWs)

IsDigit(c) == \E k \in 1..10 : Digits[k] = c
DigitValue(c) == (CHOOSE k \in 1..10 : Digits[k] = c) - 1

RECURSIVE ScanNumber(_, _, _)
ScanNumber(s, i, acc) ==
    IF i <= Len(s) /\ IsDigit(s[i])
    THEN ScanNumber(s, i + 1, acc * 10 + DigitValue(s[i]))
    ELSE JsonOk(PyInt(acc), i)

ScanString(s, i) ==
    LET rest == {j \in (i + 1)..Len(s) : s[j] = "DQ"}
    IN  IF rest = {} \/ \E j \in (i + 1)..Len(s) : s[j] = "\\"
        THEN JsonFail
        ELSE LET close == CHOOSE j \in rest : \A k \in rest : j <= k
             IN  JsonOk(PyStr(SubSeq(s, i + 1, close - 1)), close + 1)

ScanLiteral(s, i, word, val) ==
    IF i + Len(word) - 1 <= Len(s) /\ SubSeq(s, i, i + Len(word) - 1) = word
    THEN JsonOk(val, i + Len(word))
    ELSE JsonFail

RECURSIVE ScanValue(_, _)
RECURSIVE ScanMembers(_, _, _)
RECURSIVE ScanElements(_, _, _)

\* the members of an object from position i (at a key), collected into d
ScanMembers(s, i, d) ==
    IF i > Len(s) \/ s[i] # "DQ" THEN JsonFail
    ELSE LET key == ScanString(s, i)
         IN  IF ~key.ok THEN JsonFail
             ELSE LET colon == SkipWs(s, key.pos)
                  IN  IF colon > Len(s) \/ s[colon] # ":" THEN JsonFail
                      ELSE LET val == ScanValue(s, colon + 1)
                           IN  IF ~val.ok THEN JsonFail
                               ELSE LET nxt == SkipWs(s, val.pos)
                                        d2 == DictSet(d, key.val.v, val.val)
                                    IN  IF nxt > Len(s) THEN JsonFail
                                        ELSE IF s[nxt] = "}" THEN JsonOk(d2, nxt + 1)
                                        ELSE IF s[nxt] = ","
                                             THEN ScanMembers(s, SkipWs(s, nxt + 1), d2)
                                             ELSE JsonFail

\* the elements of an array from position i (at a value), collected into q
ScanElements(s, i, q) ==
    LET val == ScanValue(s, i)
    IN  IF ~val.ok THEN JsonFail
        ELSE LET nxt == SkipWs(s, val.pos)
                 q2 == Append(q, val.val)
             IN  IF nxt > Len(s) THEN JsonFail
                 ELSE IF s[nxt] = "]" THEN JsonOk(PyList(q2), nxt + 1)
                 ELSE IF s[nxt] = "," THEN ScanElements(s, nxt + 1, q2)
                 ELSE JsonFail

ScanValue(s, i) ==
    LET j == SkipWs(s, i)
    IN  IF j > Len(s) THEN JsonFail
        ELSE IF s[j] = "{"
             THEN LET k == SkipWs(s, j + 1)
                  IN  IF k <= Len(s) /\ s[k] = "}" THEN JsonOk(EmptyDict, k + 1)
                      ELSE ScanMembers(s, k, EmptyDict)
        ELSE IF s[j] = "["
             THEN LET k == SkipWs(s, j + 1)
                  IN  IF k <= Len(s) /\ s[k] = "]" THEN JsonOk(PyList(<<>>), k + 1)
                      ELSE ScanElements(s, k, <<>>)
        ELSE IF s[j] = "DQ" THEN ScanString(s, j)
        ELSE IF IsDigit(s[j]) THEN ScanNumber(s, j, 0)
        ELSE IF s[j] = "n" THEN ScanLiteral(s, j, <<"n", "u", "l", "l">>, PyNone)
        ELSE IF s[j] = "t" THEN ScanLiteral(s, j, <<"t", "r", "u", "e">>, PyBool(TRUE))
        ELSE IF s[j] = "f" THEN ScanLiteral(s, j, <<"f", "a", "l", "s", "e">>, PyBool(FALSE))
        ELSE JsonFail

\* json.loads(s): ok with the value, or not ok when it raises
json_loads(s) ==
    LET r == ScanValue(s, 1)
    IN  IF r.ok /\ SkipWs(s, r.pos) > Len(s)
        THEN [ok |-> TRUE, val |-> r.val]
        ELSE [ok |-> FALSE, val |-> PyNone]

(***************************************************************************)
(* analyze_image.  The provider's part of a call is its outcome: it raises *)
(* (network, auth, quota, a blocked answer) or it returns response.text.   *)
(***************************************************************************)
K_summary == <<"s", "u", "m", "m", "a", "r", "y">>
K_category == <<"c", "a", "t", "e", "g", "o", "r", "y">>
K_colors == <<"c", "o", "l", "o", "r", "s">>
K_materials == <<"m", "a", "t", "e", "r", "i", "a", "l", "s">>
K_style == <<"s", "t", "y", "l", "e">>
K_objects == <<"o", "b", "j", "e", "c", "t", "s">>
K_suggested_tags == <<"s", "u", "g", "g", "e", "s", "t", "e", "d", "_", "t", "a", "g", "s">>

ListKeys == <<K_colors, K_materials, K_style, K_objects, K_suggested_tags>>

SummaryLimit == 600

\* the literal dict of the three fallbacks: the given summary, category
\* 'Unknown' and five empty lists
FallbackAnalysis(summary) ==
    PyDict([k \in {K_summary, K_category} \cup ToSet(ListKeys) |->
        IF k = K_summary THEN PyStr(summary)
        ELSE IF k = K_category THEN PyStr(<<"U", "n", "k", "n", "o", "w", "n">>)
        ELSE PyList(<<>>)])

OfflineAnalysis ==
    FallbackAnalysis(<<"I", "m", "a", "g", "e", " ", "u", "p", "l", "o", "a", "d", "e", "d", ".", " ", "A", "I", " ", "a", "n", "a", "l", "y", "s", "i", "s", " ", "i", "s", " ", "u", "n", "a", "v", "a", "i", "l", "a", "b", "l", "e", " ", "i", "n", " ", "o", "f", "f", "l", "i", "n", "e", " ", "m", "o", "d", "e", ".">>)

LastResortAnalysis == FallbackAnalysis(<<"U", "n", "a", "b", "l", "e", " ", "t", "o", " ", "a", "n", "a", "l", "y", "z", "e", " ", "i", "m", "a", "g", "e", " ", "a", "t", " ", "t", "h", "i", "s", " ", "t", "i", "m", "e", ".">>)

Fence == <<"BQ", "BQ", "BQ">>

\* text = (response.text or '').strip(), then the markdown fences are stripped
StripFences(response_text) ==
    LET text == strip(response_text)
    IN  IF startswith(text, Fence)
        THEN LET lines0 == splitOn(text, "NL")
                 lines1 == IF startswith(lines0[1], Fence) THEN Tail(lines0) ELSE lines0
                 lines2 == IF lines1 # <<>> /\ strip(lines1[Len(lines1)]) = Fence
                           THEN SubSeq(lines1, 1, Len(lines1) - 1)
                           ELSE lines1
             IN  strip(join(<<"NL">>, lines2))
        ELSE text

\* the candidate JSON payload: from the first '{' to the last '}', or all of it
JsonSlice(text) ==
    LET start == find(text, "{")
        end == rfind(text, "}")
    IN  IF start # 0 /\ end # 0 /\ end > start
        THEN SubSeq(text, start, end)
        ELSE text

\* json.loads(json_text), with the best-effort wrap when it raises
ParseOrWrap(text) ==
    LET parsed == json_loads(JsonSlice(text))
    IN  IF parsed.ok
        THEN parsed.val
        ELSE FallbackAnalysis(
                IF text # <<>>
                THEN SubSeq(text, 1, IF Len(text) < SummaryLimit THEN Len(text) ELSE SummaryLimit)
                ELSE <<"U", "n", "a", "b", "l", "e", " ", "t", "o", " ", "a", "n", "a", "l", "y", "z", "e", " ", "i", "m", "a", "g", "e", ".">>)

RECURSIVE NormalizeListsOnlyMissing(_, _)
NormalizeListsOnlyMissing(analysis, keys) ==
    IF keys = <<>> THEN analysis
    ELSE NormalizeListsOnlyMissing(
            DictSetDefault(analysis, Head(keys), PyList(<<>>)), Tail(keys))

RECURSIVE NormalizeLists(_, _)
\* for k in [...]: v = analysis.get(k, []); analysis[k] = v if isinstance(v, list) else []
NormalizeLists(analysis, keys) ==
    IF keys = <<>> THEN analysis
    ELSE LET k == Head(keys)
             v == DictGet(analysis, k, PyList(<<>>))
         IN  NormalizeLists(
                DictSet(analysis, k, IF v.t = "list" THEN v ELSE PyList(<<>>)),
                Tail(keys))

\* lines 141-147; setdefault on anything but a dict raises AttributeError
EnsureFields(analysis) ==
    IF analysis.t # "dict"
    THEN [ok |-> FALSE, val |-> PyNone]
    ELSE LET a1 == DictSetDefault(analysis, K_summary, PyStr(<<>>))
             a2 == DictSetDefault(a1, K_category, PyStr(<<"U", "n", "k", "n", "o", "w", "n">>))
         IN  [ok |-> TRUE, val |-> NormalizeLists(a2, ListKeys)]

analyze_image(gemini_enabled, provider) ==
    IF ~gemini_enabled THEN OfflineAnalysis
    ELSE IF provider.raises THEN LastResortAnalysis
    ELSE LET text == StripFences(provider.text)
             ensured == EnsureFields(ParseOrWrap(text))
         IN  IF ensured.ok THEN ensured.val ELSE LastResortAnalysis

(***************************************************************************)
(* build_query_embedding                                                   *)
(***************************************************************************)
\* the keys of a dict as a sequence (the model keeps no insertion order)
KeysOf(d) ==
    CHOOSE q \in [1..Cardinality(DOMAIN d.v) -> DOMAIN d.v] : ToSet(q) = DOMAIN d.v

\* what map(str, x) yields: the elements of a list, the characters of a str, the
\* keys of a dict; not ok when x is not iterable (TypeError).  analyze_image
\* hands over lists only (lines 144-146).
Items(x) ==
    CASE x.t = "list" -> [ok |-> TRUE, val |-> Tuple([i \in 1..Len(x.v) |-> str(x.v[i])])]
      [] x.t = "str" -> [ok |-> TRUE, val |-> Tuple([i \in 1..Len(x.v) |-> <<x.v[i]>>])]
      [] x.t = "dict" -> [ok |-> TRUE, val |-> Tuple(KeysOf(x))]
      [] OTHER -> [ok |-> FALSE, val |-> <<>>]

\* ' '.join(map(str, analysis.get(k, [])))
JoinedList(analysis, k) ==
    LET items == Items(DictGet(analysis, k, PyList(<<>>)))
    IN  [ok |-> items.ok, val |-> PyStr(join(<<" ">>, items.val))]

SelectTruthy(parts) == SelectSeq(parts, Truthy)

\* return ' '.join([p for p in parts if p]).strip(), given the parts
Joined(parts) ==
    IF \E i \in 1..Len(parts) : parts[i].t # "str"
    THEN [ok |-> FALSE, val |-> <<>>]
    ELSE [ok |-> TRUE,
          val |-> strip(join(<<" ">>, Tuple([i \in 1..Len(parts) |-> parts[i].v])))]

\* the five joined lists, then the parts list
Parts(analysis, joined) ==
    IF \E i \in 1..Len(joined) : ~joined[i].ok
    THEN [ok |-> FALSE, val |-> <<>>]
    ELSE Joined(SelectTruthy(
            <<DictGet(analysis, K_summary, PyStr(<<>>)),
              DictGet(analysis, K_category, PyStr(<<>>))>>
            \o Tuple([i \in 1..Len(joined) |-> joined[i].val])))

\* ok with the string, or not ok when it raises TypeError: ' '.join on a part
\* that is not a str, or map over a value that is not iterable
build_query_embedding(analysis) ==
    Parts(analysis, Tuple([i \in 1..Len(ListKeys) |-> JoinedList(analysis, ListKeys[i])]))

(***************************************************************************)
(* get_product_embedding.  A product is a record as loaded from            *)
(* products.json; the cache maps product ids to embeddings.                *)
(***************************************************************************)
CacheHitNever(cache, product_id) == FALSE

\* product_id in product_embeddings_cache
CacheHit(cache, product_id) == product_id \in DOMAIN cache

\* f"{product['name']} {product['category']} {product['description']}"
Describe(product) ==
    product.name \o <<" ">> \o product.category \o <<" ">> \o product.description

\* product_embeddings_cache[product_id] = embedding
CacheStore(cache, product_id, embedding) ==
    [id \in DOMAIN cache \cup {product_id} |->
        IF id = product_id THEN embedding ELSE cache[id]]

MissReturnsDescription(description, embedding) == description

\* the miss path's `return embedding`
MissReturn(description, embedding) == embedding

\* what a call returns: not ok on KeyError, else the returned string and the
\* cache as the call leaves it
get_product_embedding(cache, product) ==
    IF "id" \notin DOMAIN product
    THEN [ok |-> FALSE, value |-> <<>>, cache |-> cache]
    ELSE IF CacheHit(cache, product.id)
    THEN [ok |-> TRUE, value |-> cache[product.id], cache |-> cache]
    ELSE IF ~({"name", "category", "description"} \subseteq DOMAIN product)
    THEN [ok |-> FALSE, value |-> <<>>, cache |-> cache]
    ELSE LET description == Describe(product)
             embedding == lower(description)
         IN  [ok |-> TRUE,
              value |-> MissReturn(description, embedding),
              cache |-> CacheStore(cache, product.id, embedding)]

(***************************************************************************)
(* search_products                                                         *)
(***************************************************************************)
TOP_RESULTS_LIMIT == 20
RoundScale == 10000

ALLOWED_EXTENSIONS == {<<"p", "n", "g">>, <<"j", "p", "g">>, <<"j", "p", "e", "g">>, <<"g", "i", "f">>, <<"w", "e", "b", "p">>}

\* file.filename.rsplit('.', 1)[1].lower() if '.' in file.filename else ''
FileExt(filename) ==
    LET dot == rfind(filename, ".")
    IN  IF dot = 0 THEN <<>> ELSE lower(SubSeq(filename, dot + 1, Len(filename)))

\* round(similarity, 4): the nearest multiple of 1/10000, ties to even
Round4(similarity) ==
    LET q == similarity[1] * RoundScale
        d == similarity[2]
        lo == q \div d
        rem == q % d
    IN  Rat(IF 2 * rem > d \/ (2 * rem = d /\ lo % 2 = 1) THEN lo + 1 ELSE lo, RoundScale)

\* the state of the loop over PRODUCTS: the cache, the similarities collected,
\* the values get_product_embedding returned, and not ok once a call raised
LoopStart(cache) ==
    [ok |-> TRUE, cache |-> cache, similarities |-> <<>>, calls |-> <<>>]

\* lines 427-432 with what get_product_embedding returned
Scored(loop, product, image_embedding, got) ==
    IF ~got.ok
    THEN [loop EXCEPT !.ok = FALSE]
    ELSE [ok |-> TRUE,
          cache |-> got.cache,
          similarities |-> Append(loop.similarities,
              [product |-> product,
               similarity |-> Round4(calculate_similarity(image_embedding, got.value))]),
          calls |-> Append(loop.calls, [id |-> product.id, value |-> got.value])]

\* one iteration of the loop, lines 426-432
LoopStep(loop, product, image_embedding) ==
    Scored(loop, product, image_embedding, get_product_embedding(loop.cache, product))

RECURSIVE ScoreProducts(_, _, _, _)
\* for product in PRODUCTS, from position i on, until a call raises
ScoreProducts(products, image_embedding, loop, i) ==
    IF i > Len(products) \/ ~loop.ok
    THEN loop
    ELSE ScoreProducts(products, image_embedding,
                       LoopStep(loop, products[i], image_embedding), i + 1)

SortAscendingReversed(similarities) ==
    LET n == Len(similarities)
        Key(i) == similarities[i].similarity
        rank == Tuple([i \in 1..n |->
                    Cardinality({j \in 1..n : ~RatLe(Key(j), Key(i))})
                    + Cardinality({j \in (i + 1)..n : RatEq(Key(j), Key(i))}) + 1])
    IN  Tuple([k \in 1..n |-> similarities[CHOOSE i \in 1..n : rank[i] = k]])

\* similarities.sort(key=lambda x: x['similarity'], reverse=True): a stable
\* sort, so an entry comes after the entries with a greater key and after the
\* earlier entries with an equal key
SortDescending(similarities) ==
    LET n == Len(similarities)
        Key(i) == similarities[i].similarity
        rank == Tuple([i \in 1..n |->
                    Cardinality({j \in 1..n : ~RatLe(Key(j), Key(i))})
                    + Cardinality({j \in 1..(i - 1) : RatEq(Key(j), Key(i))}) + 1])
    IN  Tuple([k \in 1..n |-> similarities[CHOOSE i \in 1..n : rank[i] = k]])

TopAll(similarities) == similarities

\* similarities[:20]; the code writes the literal, which equals TOP_RESULTS_LIMIT
Top(similarities) ==
    SubSeq(similarities, 1,
           IF Len(similarities) < TOP_RESULTS_LIMIT THEN Len(similarities)
           ELSE TOP_RESULTS_LIMIT)

NoAnalysis == [t |-> "absent", v |-> 0]

Error(status, message) ==
    [status |-> status, error |-> message, success |-> FALSE,
     analysis |-> NoAnalysis, results |-> <<>>, total_results |-> 0]

\* how the part of the handler before the loop ends: with a response returned
\* (done), or with image_analysis and image_embedding set
Return(status, message, analysis) ==
    [done |-> TRUE, response |-> Error(status, message),
     analysis |-> analysis, image_embedding |-> <<>>]

Proceed(analysis, image_embedding) ==
    [done |-> FALSE, response |-> Error(0, "none"),
     analysis |-> analysis, image_embedding |-> image_embedding]

\* 'image_url' in request.json, line 393: ok with the answer, or not ok when it
\* raises: request.json raises BadRequest on a body that is not JSON, and `in`
\* raises TypeError on null, a number or a boolean
HasImageUrl(body) ==
    CASE body.t = "dict" -> [ok |-> TRUE, val |-> <<"i", "m", "a", "g", "e", "_", "u", "r", "l">> \in DOMAIN body.v]
      [] body.t = "list" ->
            [ok |-> TRUE, val |-> \E i \in 1..Len(body.v) : body.v[i] = PyStr(<<"i", "m", "a", "g", "e", "_", "u", "r", "l">>)]
      [] body.t = "str" -> [ok |-> TRUE, val |-> Contains(body.v, <<"i", "m", "a", "g", "e", "_", "u", "r", "l">>)]
      [] OTHER -> [ok |-> FALSE, val |-> FALSE]

\* the URL branch up to the image, lines 393-410, given the membership test's
\* outcome; request.json['image_url'] on a list or a str raises TypeError, and
\* what raises outside the inner try reaches the outer except
UrlImage(req, has) ==
    IF ~has.ok
    THEN Error(500, IF req.body.t = "invalid" THEN "Search failed: BadRequest"
                    ELSE "Search failed: TypeError")
    ELSE IF ~has.val THEN Error(400, "No image file or URL provided")
    ELSE IF req.body.t # "dict" THEN Error(500, "Search failed: TypeError")
    ELSE IF ~Truthy(req.body.v[<<"i", "m", "a", "g", "e", "_", "u", "r", "l">>]) THEN Error(400, "No image URL provided")
    ELSE IF req.fetch # "image" THEN Error(400, "Failed to fetch image from URL")
    ELSE Error(0, "none")

\* obtaining the image, lines 368-410 and 419-420: the response returned when
\* there is no usable image, Error(0, ...) when there is one
ObtainImage(req) ==
    IF req.form = "file"
    THEN IF req.filename = <<>> THEN Error(400, "No file selected")
         ELSE IF FileExt(req.filename) \notin ALLOWED_EXTENSIONS
         THEN Error(400, "Invalid file type. Allowed: PNG, JPG, JPEG, GIF, WEBP")
         ELSE IF ~req.decodable THEN Error(500, "Search failed: UnidentifiedImageError")
         ELSE Error(0, "none")
    ELSE IF req.form = "json" THEN UrlImage(req, HasImageUrl(req.body))
    ELSE Error(400, "No image file or URL provided")

\* what an exception raised at lines 389-390 or 413-414 becomes: the upload
\* branch is covered by the outer except only, the URL branch by its own
RaisedInAnalysis(req) ==
    IF req.form = "file"
    THEN Error(500, "Search failed: TypeError")
    ELSE Error(400, "Failed to fetch image from URL")

\* image_embedding = build_query_embedding(image_analysis)
Embedded(req, analysis, built) ==
    IF ~built.ok
    THEN [done |-> TRUE, response |-> RaisedInAnalysis(req),
          analysis |-> analysis, image_embedding |-> <<>>]
    ELSE Proceed(analysis, built.val)

\* image_analysis = analyze_image(image, is_url=False), then the embedding
Analysed(req, analysis) == Embedded(req, analysis, build_query_embedding(analysis))

\* the handler once the image stage has ended with `refusal`
AfterImage(req, gemini_enabled, refusal) ==
    IF refusal.status # 0
    THEN [done |-> TRUE, response |-> refusal, analysis |-> NoAnalysis, image_embedding |-> <<>>]
    ELSE Analysed(req, analyze_image(gemini_enabled, req.provider))

\* the part of the handler before the loop: the image is obtained, analysed and
\* embedded
ObtainEmbedding(req, gemini_enabled) == AfterImage(req, gemini_enabled, ObtainImage(req))

\* the part of the handler after the loop: sort, cut, respond
Respond(analysis, similarities) ==
    LET top_results == Top(SortDescending(similarities))
    IN  [status |-> 200, error |-> "", success |-> TRUE, analysis |-> analysis,
         results |-> top_results, total_results |-> Len(top_results)]

\* the handler once the loop has ended with `scored`
AfterLoop(analysis, scored) ==
    [response |-> IF scored.ok THEN Respond(analysis, scored.similarities)
                  ELSE Error(500, "Search failed: KeyError"),
     cache |-> scored.cache, analysis |-> analysis, calls |-> scored.calls]

\* the handler once its first part has ended with `pre`
AfterEmbedding(pre, products, cache) ==
    IF pre.done
    THEN [response |-> pre.response, cache |-> cache,
          analysis |-> pre.analysis, calls |-> <<>>]
    ELSE AfterLoop(pre.analysis,
                   ScoreProducts(products, pre.image_embedding, LoopStart(cache), 1))

\* one request handled from start to end: the response, the cache afterwards,
\* what analyze_image returned (if called) and what get_product_embedding returned
search_products(req, gemini_enabled, products, cache) ==
    AfterEmbedding(ObtainEmbedding(req, gemini_enabled), products, cache)

(***************************************************************************)
(* validate_products (src/validate_products.py)                            *)
(***************************************************************************)
MIN_PRODUCTS == 50

required_keys == {"id", "name", "category", "price", "image_url", "description"}

validate_products(products) ==
    IF Len(products) < MIN_PRODUCTS THEN FALSE
    ELSE IF \E i \in 1..Len(products) : \E key \in required_keys : key \notin DOMAIN products[i]
    THEN FALSE
    ELSE TRUE

(***************************************************************************)
(* Catalogs: what products.json may hold.  Nothing on the load path checks *)
(* ids or keys, so catalogs with a repeated id or a missing key are loaded *)
(* like any other.                                                         *)
(***************************************************************************)
Product(id, name, category, description, price) ==
    [id |-> id, name |-> name, category |-> category, price |-> price,
     image_url |-> <<"u">>, description |-> description]

Without(product, key) == [k \in DOMAIN product \ {key} |-> product[k]]

RedSneaker == Product(1, <<"R", "e", "d", " ", "S", "n", "e", "a", "k", "e", "r">>, <<"F", "o", "o", "t", "w", "e", "a", "r">>, <<"r", "u", "n", "n", "i", "n", "g", " ", "s", "h", "o", "e", "s">>, 60)
BluePhone == Product(2, <<"B", "l", "u", "e", " ", "P", "h", "o", "n", "e">>, <<"E", "l", "e", "c", "t", "r", "o", "n", "i", "c", "s">>, <<"s", "m", "a", "r", "t", "p", "h", "o", "n", "e", " ", "c", "a", "s", "e">>, 20)
OakDesk == Product(3, <<"O", "a", "k", " ", "D", "e", "s", "k">>, <<"F", "u", "r", "n", "i", "t", "u", "r", "e">>, <<"h", "o", "m", "e", " ", "d", "e", "s", "k">>, 200)
RedPhone == Product(1, <<"R", "e", "d", " ", "P", "h", "o", "n", "e">>, <<"E", "l", "e", "c", "t", "r", "o", "n", "i", "c", "s">>, <<"r", "e", "d", " ", "c", "o", "v", "e", "r">>, 25)

BigNames == <<<<"R", "e", "d">>, <<"B", "l", "u", "e">>, <<"O", "a", "k">>>>
BigCategories == <<<<"F", "o", "o", "t", "w", "e", "a", "r">>, <<"P", "h", "o", "n", "e">>>>
BigDescriptions == <<<<"s", "h", "o", "e", "s">>, <<"c", "a", "s", "e">>, <<"r", "e", "d">>, <<"r", "u", "n">>, <<"d", "e", "s", "k">>>>

\* n products with ids 1..n, except that the product at position dup (if any)
\* repeats the id 1
BigCatalog(n, dup) ==
    Tuple([k \in 1..n |->
        Product(IF k = dup THEN 1 ELSE k,
                BigNames[(k % 3) + 1], BigCategories[(k % 2) + 1],
                BigDescriptions[(k % 5) + 1], k)])

SmallCatalogs == {
    <<>>,
    <<RedSneaker>>,
    <<RedSneaker, BluePhone, OakDesk>>,
    <<RedSneaker, RedPhone>>,
    <<BluePhone, Without(OakDesk, "description"), RedSneaker>> }

\* catalogs longer than the response's limit, one of them repeating id 1 in its
\* last product, and the empty catalog
RankCatalogs ==
    {<<>>,
     BigCatalog(TOP_RESULTS_LIMIT + 1, 0),
     BigCatalog(TOP_RESULTS_LIMIT + 1, TOP_RESULTS_LIMIT + 1),
     BigCatalog(TOP_RESULTS_LIMIT + 2, 0)}

(***************************************************************************)
(* Requests, each with the outcomes of its environment: whether the upload *)
(* decodes, what fetching the URL gives, what the provider does.           *)
(***************************************************************************)
ProviderTexts == {
    <<"BQ", "BQ", "BQ", "j", "s", "o", "n", "NL", "{", "DQ", "s", "u", "m", "m", "a", "r", "y", "DQ", ":", " ", "DQ", "r", "e", "d", " ", "r", "u", "n", "n", "i", "n", "g", " ", "s", "h", "o", "e", "s", "DQ", ",", " ", "DQ", "c", "a", "t", "e", "g", "o", "r", "y", "DQ", ":", " ", "DQ", "F", "o", "o", "t", "w", "e", "a", "r", "DQ", ",", " ", "DQ", "c", "o", "l", "o", "r", "s", "DQ", ":", " ", "[", "DQ", "r", "e", "d", "DQ", "]", ",", " ", "DQ", "m", "a", "t", "e", "r", "i", "a", "l", "s", "DQ", ":", " ", "[", "]", ",", " ", "DQ", "s", "t", "y", "l", "e", "DQ", ":", " ", "[", "DQ", "s", "p", "o", "r", "t", "DQ", "]", ",", " ", "DQ", "o", "b", "j", "e", "c", "t", "s", "DQ", ":", " ", "[", "DQ", "s", "n", "e", "a", "k", "e", "r", "DQ", "]", ",", " ", "DQ", "s", "u", "g", "g", "e", "s", "t", "e", "d", "_", "t", "a", "g", "s", "DQ", ":", " ", "[", "DQ", "s", "h", "o", "e", "s", "DQ", ",", " ", "1", "]", "}", "NL", "BQ", "BQ", "BQ">>,
    <<"{", "DQ", "s", "u", "m", "m", "a", "r", "y", "DQ", ":", " ", "DQ", "b", "l", "u", "e", " ", "p", "h", "o", "n", "e", " ", "c", "a", "s", "e", "DQ", ",", " ", "DQ", "c", "o", "l", "o", "r", "s", "DQ", ":", " ", "n", "u", "l", "l", ",", " ", "DQ", "m", "a", "t", "e", "r", "i", "a", "l", "s", "DQ", ":", " ", "DQ", "p", "l", "a", "s", "t", "i", "c", "DQ", ",", " ", "DQ", "s", "t", "y", "l", "e", "DQ", ":", " ", "5", "}">>,
    <<"S", "u", "r", "e", ":", " ", "{", "DQ", "s", "u", "m", "m", "a", "r", "y", "DQ", ":", " ", "DQ", "a", " ", "d", "e", "s", "k", "DQ", ",", " ", "DQ", "c", "a", "t", "e", "g", "o", "r", "y", "DQ", ":", " ", "DQ", "F", "u", "r", "n", "i", "t", "u", "r", "e", "DQ", "}", " ", "d", "o", "n", "e">>,
    <<"I", " ", "c", "a", "n", "n", "o", "t", " ", "a", "n", "a", "l", "y", "z", "e", " ", "t", "h", "i", "s", " ", "i", "m", "a", "g", "e">>,
    <<"I", " ", "s", "e", "e", " ", "{", "a", " ", "r", "e", "d", " ", "s", "h", "o", "e", "}">>,
    <<>>,
    <<"[", "1", ",", " ", "2", "]">>,
    <<"{", "DQ", "s", "u", "m", "m", "a", "r", "y", "DQ", ":", " ", "5", "}">>,
    <<"{", "DQ", "c", "a", "t", "e", "g", "o", "r", "y", "DQ", ":", " ", "[", "DQ", "F", "o", "o", "t", "w", "e", "a", "r", "DQ", "]", "}">> }

ProviderOutcomes ==
    {[raises |-> TRUE, text |-> <<>>]} \cup {[raises |-> FALSE, text |-> t] : t \in ProviderTexts}

NoProvider == [raises |-> TRUE, text |-> <<>>]

\* the URL form runs the same analysis; it is exercised on three of the outcomes
UrlProviderOutcomes ==
    {NoProvider,
     [raises |-> FALSE, text |-> <<"S", "u", "r", "e", ":", " ", "{", "DQ", "s", "u", "m", "m", "a", "r", "y", "DQ", ":", " ", "DQ", "a", " ", "d", "e", "s", "k", "DQ", ",", " ", "DQ", "c", "a", "t", "e", "g", "o", "r", "y", "DQ", ":", " ", "DQ", "F", "u", "r", "n", "i", "t", "u", "r", "e", "DQ", "}", " ", "d", "o", "n", "e">>],
     [raises |-> FALSE, text |-> <<"{", "DQ", "s", "u", "m", "m", "a", "r", "y", "DQ", ":", " ", "5", "}">>]}

FileRequest(filename, decodable, provider) ==
    [form |-> "file", filename |-> filename, decodable |-> decodable,
     body |-> PyNone, fetch |-> "none", provider |-> provider]

JsonRequest(body, fetch, provider) ==
    [form |-> "json", filename |-> <<>>, decodable |-> FALSE,
     body |-> body, fetch |-> fetch, provider |-> provider]

UrlBody(image_url) == DictSet(EmptyDict, <<"i", "m", "a", "g", "e", "_", "u", "r", "l">>, image_url)

\* a body sent as application/json that is not JSON
InvalidBody == [t |-> "invalid", v |-> 0]

NoneRequest ==
    [form |-> "none", filename |-> <<>>, decodable |-> FALSE,
     body |-> PyNone, fetch |-> "none", provider |-> NoProvider]

Requests ==
    {FileRequest(<<"s", "h", "o", "e", ".", "P", "N", "G">>, TRUE, p) : p \in ProviderOutcomes}
    \cup {JsonRequest(UrlBody(PyStr(<<"h", "t", "t", "p", ":", "/", "/", "x", "/", "a", ".", "j", "p", "g">>)), "image", p) : p \in UrlProviderOutcomes}
    \cup {FileRequest(<<>>, FALSE, NoProvider),
          FileRequest(<<"n", "o", "t", "e", "s", ".", "t", "x", "t">>, FALSE, NoProvider),
          FileRequest(<<"s", "h", "o", "e">>, TRUE, NoProvider),
          FileRequest(<<"b", "r", "o", "k", "e", "n", ".", "j", "p", "g">>, FALSE, NoProvider),
          JsonRequest(UrlBody(PyStr(<<>>)), "none", NoProvider),
          JsonRequest(UrlBody(PyNone), "none", NoProvider),
          JsonRequest(UrlBody(PyStr(<<"h", "t", "t", "p", ":", "/", "/", "x", "/", "g", "o", "n", "e">>)), "error", NoProvider),
          JsonRequest(UrlBody(PyStr(<<"h", "t", "t", "p", ":", "/", "/", "x", "/", "p", "a", "g", "e", ".", "h", "t", "m", "l">>)), "not_image", NoProvider),
          JsonRequest(EmptyDict, "none", NoProvider),
          JsonRequest(PyNone, "none", NoProvider),
          JsonRequest(PyInt(5), "none", NoProvider),
          JsonRequest(PyList(<<>>), "none", NoProvider),
          JsonRequest(PyList(<<PyStr(<<"i", "m", "a", "g", "e", "_", "u", "r", "l">>)>>), "none", NoProvider),
          JsonRequest(PyStr(<<"i", "m", "a", "g", "e", "_", "u", "r", "l">>), "none", NoProvider),
          JsonRequest(InvalidBody, "none", NoProvider),
          NoneRequest}

\* the requests run against the long catalogs
RankRequests ==
    {FileRequest(<<"s", "h", "o", "e", ".", "P", "N", "G">>, TRUE, p) : p \in UrlProviderOutcomes}
    \cup {FileRequest(<<"s", "h", "o", "e", ".", "j", "p", "e", "g">>, TRUE, [raises |-> FALSE, text |-> <<"[", "1", ",", " ", "2", "]">>]),
          FileRequest(<<"s", "h", "o", "e", ".", "g", "i", "f">>, TRUE, [raises |-> FALSE, text |-> <<"{", "DQ", "c", "a", "t", "e", "g", "o", "r", "y", "DQ", ":", " ", "DQ", "r", "e", "d", " ", "s", "h", "o", "e", "s", "DQ", "}">>]),
          JsonRequest(UrlBody(PyStr(<<"h", "t", "t", "p", ":", "/", "/", "x", "/", "a", ".", "j", "p", "g">>)), "image", NoProvider),
          FileRequest(<<"n", "o", "t", "e", "s", ".", "t", "x", "t">>, FALSE, NoProvider),
          NoneRequest}

\* the requests run concurrently
ConcRequests ==
    {FileRequest(<<"s", "h", "o", "e", ".", "P", "N", "G">>, TRUE, NoProvider), NoneRequest}

NoRequest ==
    [form |-> "never", filename |-> <<>>, decodable |-> FALSE,
     body |-> PyNone, fetch |-> "none", provider |-> NoProvider]

DirectCall(i) ==
    [form |-> "direct", filename |-> <<>>, decodable |-> FALSE,
     body |-> PyInt(i), fetch |-> "none", provider |-> NoProvider]

NoResponse == Error(0, "none")

(***************************************************************************)
(* The application, one request at a time.                                 *)
(***************************************************************************)
IdleWorker ==
    [pc |-> "idle", req |-> NoRequest, analysis |-> NoAnalysis, image_embedding |-> <<>>,
     i |-> 0, similarities |-> <<>>, response |-> NoResponse]

IdleWorkers == [w \in 1..NumWorkers |-> IdleWorker]

SimIdle ==
    /\ simA = <<>>
    /\ simB = <<>>
    /\ simResult = None

\* the process after start-up: products.json is loaded, the cache is empty
Started(catalogs) ==
    /\ PRODUCTS \in catalogs
    /\ GEMINI_ENABLED \in BOOLEAN
    /\ product_embeddings_cache = <<>>
    /\ lastRequest = NoRequest
    /\ lastResponse = NoResponse
    /\ lastAnalysis = NoAnalysis
    /\ lastCalls = <<>>
    /\ validated = "not run"
    /\ workers = IdleWorkers
    /\ returned = {}
    /\ SimIdle

Init == Started(SmallCatalogs)

\* the request, its response and what the handler did, as the state records them
Handled(req, out) ==
    /\ lastRequest' = req
    /\ lastResponse' = out.response
    /\ lastAnalysis' = out.analysis
    /\ lastCalls' = out.calls
    /\ product_embeddings_cache' = out.cache
    /\ UNCHANGED <<PRODUCTS, GEMINI_ENABLED, validated, concVars, simVars>>

\* POST /api/search, handled from start to end
Search(requests) ==
    \E req \in requests :
        Handled(req, search_products(req, GEMINI_ENABLED, PRODUCTS, product_embeddings_cache))

SearchProducts == Search(Requests)

\* a direct call and what it returned, as the state records them
Called(i, got) ==
    /\ lastRequest' = DirectCall(i)
    /\ lastResponse' = NoResponse
    /\ lastAnalysis' = NoAnalysis
    /\ lastCalls' = IF got.ok THEN <<[id |-> PRODUCTS[i].id, value |-> got.value]>> ELSE <<>>
    /\ product_embeddings_cache' = got.cache
    /\ UNCHANGED <<PRODUCTS, GEMINI_ENABLED, validated, concVars, simVars>>

\* get_product_embedding(PRODUCTS[i]) called on its own
GetProductEmbedding ==
    \E i \in 1..(IF Len(PRODUCTS) < MaxDirect THEN Len(PRODUCTS) ELSE MaxDirect) :
        Called(i, get_product_embedding(product_embeddings_cache, PRODUCTS[i]))

Next == SearchProducts \/ GetProductEmbedding

Spec == Init /\ [][Next]_vars

(***************************************************************************)
(* The same application over catalogs longer than the response's limit.    *)
(***************************************************************************)
InitRank == Started(RankCatalogs)

SearchRanked == Search(RankRequests)

NextRank == SearchRanked \/ GetProductEmbedding

SpecRank == InitRank /\ [][NextRank]_vars

(***************************************************************************)
(* Concurrent requests (the server runs handlers in threads).  A handler's *)
(* steps are cut where it reads or writes the shared cache: the membership *)
(* test of get_product_embedding and its store are separate steps, and     *)
(* nothing locks the cache between them.                                   *)
(***************************************************************************)
InitConc == Started(SmallCatalogs)

Raised(worker, message) ==
    [worker EXCEPT !.pc = "done", !.response = Error(500, message)]

\* similarities.append(...) with the value the call returned, and on to the
\* next product
Collected(worker, product, value) ==
    [worker EXCEPT
        !.similarities = Append(@,
            [product |-> product,
             similarity |-> Round4(calculate_similarity(worker.image_embedding, value))]),
        !.i = @ + 1,
        !.pc = IF worker.i + 1 > Len(PRODUCTS) THEN "respond" ELSE "check"]

\* a handler that has run up to the loop with outcome `pre`
Begun(req, pre) ==
    IF pre.done
    THEN [IdleWorker EXCEPT !.pc = "done", !.req = req,
                            !.analysis = pre.analysis, !.response = pre.response]
    ELSE [IdleWorker EXCEPT !.pc = IF Len(PRODUCTS) = 0 THEN "respond" ELSE "check",
                            !.req = req, !.analysis = pre.analysis,
                            !.image_embedding = pre.image_embedding, !.i = 1]

\* the handler up to the loop
Begin(w) ==
    /\ workers[w].pc = "idle"
    /\ \E req \in ConcRequests :
        workers' = [workers EXCEPT ![w] = Begun(req, ObtainEmbedding(req, GEMINI_ENABLED))]
    /\ UNCHANGED <<appVars, returned, simVars>>

\* get_product_embedding, lines 263-267: the id, the membership test, the hit
Check(w) ==
    /\ workers[w].pc = "check"
    /\ LET worker == workers[w]
           product == PRODUCTS[worker.i]
       IN  IF "id" \notin DOMAIN product
           THEN /\ workers' = [workers EXCEPT ![w] = Raised(worker, "Search failed: KeyError")]
                /\ UNCHANGED returned
           ELSE IF CacheHit(product_embeddings_cache, product.id)
           THEN LET value == product_embeddings_cache[product.id]
                IN  /\ workers' = [workers EXCEPT ![w] = Collected(worker, product, value)]
                    /\ returned' = returned \cup
                            {[id |-> product.id, value |-> value, worker |-> w, path |-> "hit"]}
           ELSE /\ workers' = [workers EXCEPT ![w].pc = "store"]
                /\ UNCHANGED returned
    /\ UNCHANGED <<appVars, simVars>>

\* get_product_embedding, lines 270-276: the miss
Store(w) ==
    /\ workers[w].pc = "store"
    /\ LET worker == workers[w]
           product == PRODUCTS[worker.i]
       IN  IF ~({"name", "category", "description"} \subseteq DOMAIN product)
           THEN /\ workers' = [workers EXCEPT ![w] = Raised(worker, "Search failed: KeyError")]
                /\ UNCHANGED <<product_embeddings_cache, returned>>
           ELSE LET description == Describe(product)
                    embedding == lower(description)
                    value == MissReturn(description, embedding)
                IN  /\ product_embeddings_cache' =
                            CacheStore(product_embeddings_cache, product.id, embedding)
                    /\ workers' = [workers EXCEPT ![w] = Collected(worker, product, value)]
                    /\ returned' = returned \cup
                            {[id |-> product.id, value |-> value, worker |-> w, path |-> "miss"]}
    /\ UNCHANGED <<PRODUCTS, GEMINI_ENABLED, lastRequest, lastResponse, lastAnalysis,
                   lastCalls, validated, simVars>>

\* the handler after the loop, lines 435-445
Finish(w) ==
    /\ workers[w].pc = "respond"
    /\ LET worker == workers[w]
       IN  workers' = [workers EXCEPT ![w] =
                [worker EXCEPT !.pc = "done",
                               !.response = Respond(worker.analysis, worker.similarities)]]
    /\ UNCHANGED <<appVars, returned, simVars>>

NextConc == \E w \in 1..NumWorkers : Begin(w) \/ Check(w) \/ Store(w) \/ Finish(w)

SpecConc == InitConc /\ [][NextConc]_vars

(***************************************************************************)
(* The validator on its own: products.json is drawn at Init, the CI step   *)
(* runs validate_products on it.                                           *)
(***************************************************************************)
\* catalogs around the minimum size: all ids distinct or one id repeated, all
\* keys present or one key missing from the first or the last product
ValCatalogs ==
    {IF miss[1] = 0 THEN BigCatalog(n, dup)
     ELSE [BigCatalog(n, dup) EXCEPT ![miss[1]] = Without(@, miss[2])] :
        n \in (MIN_PRODUCTS - 1)..(MIN_PRODUCTS + ValExtra),
        dup \in {0, 2, MIN_PRODUCTS - 1},
        miss \in {<<0, "none">>} \cup ({1, MIN_PRODUCTS - 1} \X required_keys)}

InitValidate ==
    /\ PRODUCTS \in ValCatalogs
    /\ GEMINI_ENABLED = FALSE
    /\ product_embeddings_cache = <<>>
    /\ lastRequest = NoRequest
    /\ lastResponse = NoResponse
    /\ lastAnalysis = NoAnalysis
    /\ lastCalls = <<>>
    /\ validated = "not run"
    /\ workers = IdleWorkers
    /\ returned = {}
    /\ SimIdle

\* python validate_products.py
ValidateProducts ==
    /\ validated = "not run"
    /\ validated' = IF validate_products(PRODUCTS) THEN "accepted" ELSE "rejected"
    /\ UNCHANGED <<PRODUCTS, GEMINI_ENABLED, product_embeddings_cache, lastRequest,
                   lastResponse, lastAnalysis, lastCalls, concVars, simVars>>

NextValidate == ValidateProducts

SpecValidate == InitValidate /\ [][NextValidate]_vars

(***************************************************************************)
(* The scorer on its own: the arguments are drawn at Init, Score applies   *)
(* calculate_similarity to them.                                           *)
(***************************************************************************)
SimAlphabet == {"a", "B", " "}

RECURSIVE StringsUpTo(_)
StringsUpTo(n) ==
    IF n = 0 THEN {<<>>}
    ELSE LET shorter == StringsUpTo(n - 1)
         IN  shorter \cup {Append(s, c) : s \in shorter, c \in SimAlphabet}

SimPhrases == {
    <<"b", "l", "u", "e", " ", "p", "h", "o", "n", "e", " ", "c", "a", "s", "e">>, <<"r", "e", "d", " ", "p", "h", "o", "n", "e", " ", "c", "o", "v", "e", "r">>, <<"P", "h", "o", "n", "e">>, <<"s", "m", "a", "r", "t", "p", "h", "o", "n", "e", "s">>,
    <<"r", "e", "d", " ", " ", "S", "h", "o", "e", "s">>, <<"s", "h", "o", "e", "s", "TAB", "r", "e", "d">>, <<"h", "o", "m", "e">>, <<"H", "O", "M", "E", " ", "h", "o", "m", "e">>, <<"a", " ", "d", "e", "s", "k">>,
    <<"r", "e", "d", " ", "s", "n", "e", "a", "k", "e", "r", " ", "f", "o", "o", "t", "w", "e", "a", "r", " ", "r", "u", "n", "n", "i", "n", "g", " ", "s", "h", "o", "e", "s">>, <<" ", "NL">>, <<"p", "h", "o", "n", "e", " ", "p", "h", "o", "n", "e">>, <<"r", "e", "d", " ", "s", "m", "a", "r", "t", "p", "h", "o", "n", "e", "s">> }

SimStrings == StringsUpTo(MaxLen) \cup SimPhrases

AppIdle ==
    /\ PRODUCTS = <<>>
    /\ GEMINI_ENABLED = FALSE
    /\ product_embeddings_cache = <<>>
    /\ lastRequest = NoRequest
    /\ lastResponse = NoResponse
    /\ lastAnalysis = NoAnalysis
    /\ lastCalls = <<>>
    /\ validated = "not run"
    /\ workers = IdleWorkers
    /\ returned = {}

InitSim ==
    /\ simA \in SimStrings
    /\ simB \in SimStrings
    /\ simResult = None
    /\ AppIdle

Score ==
    /\ simResult = None
    /\ simResult' = calculate_similarity(simA, simB)
    /\ UNCHANGED <<simA, simB, appVars, concVars>>

NextSim == Score

SpecSim == InitSim /\ [][NextSim]_vars

(***************************************************************************)
(* Properties of the scorer.                                               *)
(***************************************************************************)
\* The words of s as the maximal runs of non-whitespace characters.
MaximalRuns(s) ==
    {SubSeq(s, i, j) : <<i, j>> \in
        {p \in (1..Len(s)) \X (1..Len(s)) :
            /\ p[1] <= p[2]
            /\ \A k \in p[1]..p[2] : s[k] \notin Whitespace
            /\ (p[1] = 1 \/ s[p[1] - 1] \in Whitespace)
            /\ (p[2] = Len(s) \/ s[p[2] + 1] \in Whitespace)}}

\* k occurs in s at some offset, character by character.
OccursIn(k, s) ==
    \E off \in 0..Len(s) :
        \A j \in 1..Len(k) : off + j <= Len(s) /\ s[off + j] = k[j]

KeywordInBoth(a, b) ==
    \E k \in category_keywords : OccursIn(k, lower(a)) /\ OccursIn(k, lower(b))

\* C1: for all strings a and b, calculate_similarity(a, b) lies in the closed
\* interval [0, 1], whether or not the category-keyword boost applies.
C1_ScoreInUnitInterval ==
    simResult # None =>
        /\ simResult[2] > 0
        /\ 0 <= simResult[1]
        /\ simResult[1] <= simResult[2]

\* C1 witness: a boosted score of a pair with partial overlap has been returned
\* and it is strictly inside the interval.
C1_Witness ==
    /\ simResult # None
    /\ KeywordInBoth(simA, simB)
    /\ 0 < simResult[1]
    /\ simResult[1] < simResult[2]

C9_Original ==
    (simResult # None /\ simA = simB /\ simA # <<>>) => simResult[1] = simResult[2]

\* C9 as amended: for every string a that has at least one non-whitespace
\* character, calculate_similarity(a, a) = 1.0.
C9_SelfSimilarityIsOne ==
    (simResult # None /\ simA = simB /\ \E i \in 1..Len(simA) : simA[i] \notin Whitespace)
        => simResult[1] = simResult[2]

\* C9 witness: a string with words has been scored against itself.
C9_Witness ==
    /\ simResult # None
    /\ simA = simB
    /\ Cardinality(MaximalRuns(simA)) >= 2

(***************************************************************************)
(* Properties of the search, the cache and the analyzer.                   *)
(***************************************************************************)
Succeeded == lastResponse.status = 200

\* the position of a product in the catalog (the modelled catalogs hold no
\* product twice)
CatalogIndex(product) == CHOOSE k \in 1..Len(PRODUCTS) : PRODUCTS[k] = product

Less(p, q) == p[1] * q[2] < q[1] * p[2]

\* the request carries a valid, decodable image
ValidImage(req) ==
    \/ req.form = "file" /\ FileExt(req.filename) \in ALLOWED_EXTENSIONS /\ req.decodable
    \/ req.form = "json" /\ req.fetch = "image"

\* every product carries what the search reads
CatalogWellFormed ==
    \A k \in 1..Len(PRODUCTS) :
        {"id", "name", "category", "description"} \subseteq DOMAIN PRODUCTS[k]

\* the request got as far as the loop over the catalog: its image was analysed
\* and the query embedding was built
QueryBuilt ==
    /\ ValidImage(lastRequest)
    /\ lastAnalysis # NoAnalysis
    /\ build_query_embedding(lastAnalysis).ok

\* C2: in every successful search response the results are in descending order
\* of similarity, and results of equal similarity are in catalog order.
C2_ResultsRanked ==
    Succeeded =>
        LET r == lastResponse.results
        IN  \A i, j \in 1..Len(r) :
                i < j =>
                    \/ Less(r[j].similarity, r[i].similarity)
                    \/ /\ r[i].similarity = r[j].similarity
                       /\ CatalogIndex(r[i].product) < CatalogIndex(r[j].product)

\* C2 witness: a response whose results come in another order than the catalog's
\* and in which several results tie.
C2_Witness ==
    /\ Succeeded
    /\ LET r == lastResponse.results
       IN  /\ \E i, j \in 1..Len(r) :
                i < j /\ CatalogIndex(r[i].product) > CatalogIndex(r[j].product)
           /\ \E i, j \in 1..Len(r) :
                i < j /\ r[i].similarity = r[j].similarity /\ r[i].similarity[1] > 0

\* C3: a successful search over n products returns exactly min(n, 20) results and
\* total_results is that number; a search over the empty catalog that got as far
\* as the catalog succeeds with no results and total_results 0.
C3_ResultCount ==
    /\ Succeeded =>
            /\ Len(lastResponse.results) =
                    (IF Len(PRODUCTS) < 20 THEN Len(PRODUCTS) ELSE 20)
            /\ lastResponse.total_results = Len(lastResponse.results)
    /\ (Len(PRODUCTS) = 0 /\ QueryBuilt) =>
            /\ Succeeded
            /\ lastResponse.results = <<>>
            /\ lastResponse.total_results = 0

\* C3 witness: a successful search over more than 20 products, cut to 20.
C3_Witness ==
    /\ Succeeded
    /\ Len(PRODUCTS) > 20
    /\ lastResponse.total_results = 20

\* C4: an entry of the embedding cache is never removed and never changes, and a
\* get_product_embedding call for an id the cache already holds returns the
\* stored value.
C4_CacheEntriesStable ==
    [][/\ \A id \in DOMAIN product_embeddings_cache :
            /\ id \in DOMAIN product_embeddings_cache'
            /\ product_embeddings_cache'[id] = product_embeddings_cache[id]
       /\ \A k \in 1..Len(lastCalls') :
            lastCalls'[k].id \in DOMAIN product_embeddings_cache =>
                lastCalls'[k].value = product_embeddings_cache[lastCalls'[k].id]]_vars

\* C4 witness: after an earlier operation filled the cache, a search made two
\* calls for one id, the second of them answered from the cache.
C4_Witness ==
    /\ Succeeded
    /\ \E j, k \in 1..Len(lastCalls) :
            /\ j < k
            /\ lastCalls[j].id = lastCalls[k].id
            /\ lastCalls[k].value = product_embeddings_cache[lastCalls[k].id]

\* C5: when search requests run concurrently, every get_product_embedding call
\* for one product id returns the same value, and the cache holds that value for
\* the id, under every interleaving.
C5_ConcurrentCallsAgree ==
    /\ \A a, b \in returned : a.id = b.id => a.value = b.value
    /\ \A a \in returned :
            /\ a.id \in DOMAIN product_embeddings_cache
            /\ product_embeddings_cache[a.id] = a.value

\* C5 witness: two handlers both missed on the same id and both stored it, and
\* all handlers have responded.
C5_Witness ==
    /\ \A w \in 1..NumWorkers : workers[w].pc = "done"
    /\ \E a, b \in returned :
            a.id = b.id /\ a.worker # b.worker /\ a.path = "miss" /\ b.path = "miss"

\* C6: a search request with a valid, decodable image completes with a success
\* response whatever the vision provider does: not configured, raising, or
\* returning any text.
C6_ProviderNeverFailsSearch ==
    (ValidImage(lastRequest) /\ CatalogWellFormed) => Succeeded

\* C7: whatever analyze_image returns has each of colors, materials, style,
\* objects and suggested_tags present and a list.
C7_ListFieldsAreLists ==
    lastAnalysis # NoAnalysis =>
        /\ lastAnalysis.t = "dict"
        /\ \A i \in 1..Len(ListKeys) :
                /\ ListKeys[i] \in DOMAIN lastAnalysis.v
                /\ lastAnalysis.v[ListKeys[i]].t = "list"

\* C7 witness: the provider answered with an object whose colors is null and
\* whose materials and style are scalars, and its summary came through.
C7_Witness ==
    /\ GEMINI_ENABLED
    /\ ~lastRequest.provider.raises
    /\ Contains(lastRequest.provider.text, <<"DQ", "c", "o", "l", "o", "r", "s", "DQ", ":", " ", "n", "u", "l", "l">>)
    /\ lastAnalysis # NoAnalysis
    /\ lastAnalysis.v[K_summary] = PyStr(<<"b", "l", "u", "e", " ", "p", "h", "o", "n", "e", " ", "c", "a", "s", "e">>)

\* C10: validate_products accepts a catalog only if its product ids are pairwise
\* distinct and every product carries id, name, category, price, image_url and
\* description.
C10_AcceptedCatalogIsSound ==
    validated = "accepted" =>
        /\ \A i, j \in 1..Len(PRODUCTS) :
                (i # j /\ "id" \in DOMAIN PRODUCTS[i] /\ "id" \in DOMAIN PRODUCTS[j])
                    => PRODUCTS[i].id # PRODUCTS[j].id
        /\ \A i \in 1..Len(PRODUCTS) :
                {"id", "name", "category", "price", "image_url", "description"}
                    \subseteq DOMAIN PRODUCTS[i]

\* the request body is a JSON object that carries image_url
CarriesImageUrl(req) ==
    req.form = "json" /\ req.body.t = "dict" /\ <<"i", "m", "a", "g", "e", "_", "u", "r", "l">> \in DOMAIN req.body.v

\* the client-input-error cases: no image file and no image_url, an upload with
\* an empty filename, an upload whose extension is not allowed, an empty
\* image_url, an image_url whose content cannot be fetched or is no image
ClientInputError(req) ==
    \/ req.form = "none"
    \/ req.form = "json" /\ ~CarriesImageUrl(req)
    \/ req.form = "file" /\ req.filename = <<>>
    \/ req.form = "file" /\ req.filename # <<>> /\ FileExt(req.filename) \notin ALLOWED_EXTENSIONS
    \/ CarriesImageUrl(req) /\ req.body.v[<<"i", "m", "a", "g", "e", "_", "u", "r", "l">>] = PyStr(<<>>)
    \/ /\ CarriesImageUrl(req)
       /\ Truthy(req.body.v[<<"i", "m", "a", "g", "e", "_", "u", "r", "l">>])
       /\ req.fetch \in {"error", "not_image"}

\* C11: a search request in any of the client-input-error cases is answered with
\* status 400, an error message and no results.
C11_ClientErrorsAre400 ==
    ClientInputError(lastRequest) =>
        /\ lastResponse.status = 400
        /\ lastResponse.error # ""
        /\ ~lastResponse.success
        /\ lastResponse.results = <<>>

\* the embedding a product's own fields give
OwnEmbedding(product) == lower(Describe(product))

\* C12: in every successful search response the similarity reported for a
\* product is the rounded score of the query embedding against the lowercased
\* name, category and description of that same product.
C12_SimilarityOfOwnFields ==
    Succeeded =>
        \A i \in 1..Len(lastResponse.results) :
            lastResponse.results[i].similarity =
                Round4(calculate_similarity(build_query_embedding(lastAnalysis).val,
                                            OwnEmbedding(lastResponse.results[i].product)))

====
